---------------------------- MODULE Spec2Model ----------------------------
(***************************************************************************)
(* Raster kernels of the Virtual Frame WASM modules (src/wasm/src):        *)
(*   sdf.rs        generate_sdf (seed marking, jump flooding, normalise)   *)
(*   mipmap.rs     generate_mipmaps / downsample_2x / select_mipmap_level  *)
(*   normalize.rs  calculate_centroid, smooth_alpha, dilate/erode_alpha    *)
(*                                                                         *)
(* Buffers are functions over 0..n-1 so that indices read as in the Rust   *)
(* source.  Each kernel has its own specification (SpecSdf, SpecMip,       *)
(* SpecSelect, SpecCentroid, SpecSmooth, SpecMorph); the variables of the  *)
(* other kernels stay at their idle values.                                *)
(*                                                                         *)
(* Floating point: f32 distances are kept as their exact squares (the      *)
(* square root is strictly monotone on the small integers that occur), the *)
(* centroid is kept as an exact fraction, and quotients are computed in    *)
(* exact arithmetic; f32 rounding error is outside the model.              *)
(***************************************************************************)
EXTENDS Integers, Sequences, FiniteSets, TLC

\* ------------------------------------------------------------------ bounds
MaxW == 7
MaxH == 3
MaxArea == 9
MaxLevels == 3
MaxRadius == 2
MaxGreyArea == 6
MaxSize == 40
MaxCount == 5

\* ------------------------------------------------------ program constants
\* stands for usize::MAX, the value of 0usize.wrapping_sub(1); the largest
\* integer TLC represents is used (it is compared with w and h only)
USIZE_MAX == 2147483647
\* stands for f32::MAX, the initial "no distance yet" value; larger than any
\* squared distance inside the bounds
DIST_UNSET == 1000000

\* --------------------------------------------------------------- input sets
\* alpha values on both sides of the opacity classification alpha > 127
SdfAlphas == {127, 128}
MaskAlphas == {0, 128, 255}
MipAlphas == {0, 255}
MaxDistances == {1, 3, 10}
SmoothAlphas == {0, 255}
Thresholds == {0, 128, 129}
\* edge_softness in quarters: strength = q/4
StrengthQ == 0..4
Sizes == (1..MaxSize) \cup {64, 128, 256, 512}

Dims0 == {d \in (0..MaxW) \X (0..MaxH) : d[1] * d[2] <= MaxArea}
Dims1 == {d \in Dims0 : d[1] >= 1 /\ d[2] >= 1}
\* masks for the morphology filters: three grey levels on the small images,
\* two on the larger ones
MorphMasks(d) ==
    IF d[1] * d[2] <= MaxGreyArea
    THEN [0..(d[1] * d[2] - 1) -> MaskAlphas]
    ELSE [0..(d[1] * d[2] - 1) -> {0, 255}]

Min(a, b) == IF a < b THEN a ELSE b
Max(a, b) == IF a > b THEN a ELSE b
len(f) == Cardinality(DOMAIN f)
Buf(n, v) == [i \in 0..(n - 1) |-> v]
Empty == Buf(0, 0)

VARIABLES
    pc,             \* position in the kernel being run
    width, height,  \* image dimensions of the call
    alpha_data,     \* the alpha mask argument
    \* generate_sdf
    seeds, distances, step, py, px, pk, max_distance, sdf_result,
    \* generate_mipmaps
    image_data, levels, level_i, current_width, current_height, current_data,
    mip_result,
    \* select_mipmap_level
    output_size, source_size, mipmap_count, level,
    \* calculate_centroid
    threshold, centroid,
    \* smooth_alpha
    strength, temp, blurred, smoothed,
    \* dilate_alpha / erode_alpha
    radius, dilated, eroded

callVars == <<width, height, alpha_data>>
sdfVars == <<seeds, distances, step, py, px, pk, max_distance, sdf_result>>
mipVars == <<image_data, levels, level_i, current_width, current_height,
             current_data, mip_result>>
selVars == <<output_size, source_size, mipmap_count, level>>
cenVars == <<threshold, centroid>>
smoVars == <<strength, temp, blurred, smoothed>>
morVars == <<radius, dilated, eroded>>
vars == <<pc, callVars, sdfVars, mipVars, selVars, cenVars, smoVars, morVars>>

IdleCall == width = 0 /\ height = 0 /\ alpha_data = Empty
IdleSdf ==
    /\ seeds = Empty /\ distances = Empty /\ step = 0
    /\ py = 0 /\ px = 0 /\ pk = 1 /\ max_distance = 0 /\ sdf_result = Empty
IdleMip ==
    /\ image_data = Empty /\ levels = 0 /\ level_i = 0
    /\ current_width = 0 /\ current_height = 0
    /\ current_data = Empty /\ mip_result = <<>>
IdleSel == output_size = 0 /\ source_size = 0 /\ mipmap_count = 0 /\ level = 0
IdleCen == threshold = 0 /\ centroid = <<>>
IdleSmo == strength = 0 /\ temp = Empty /\ blurred = Empty /\ smoothed = Empty
IdleMor == radius = 0 /\ dilated = Empty /\ eroded = Empty

\* ======================================================================
\* sdf.rs
\* ======================================================================

\* x.wrapping_sub(1) on usize
wrapping_sub1(x) == IF x = 0 THEN USIZE_MAX ELSE x - 1

\* is_edge_pixel: the opacity class differs from an in-bounds 4-neighbour
is_edge_pixel(alpha, w, h, x, y) ==
    LET current == alpha[y * w + x] > 127
        neighbors == << <<wrapping_sub1(x), y>>, <<x + 1, y>>,
                        <<x, wrapping_sub1(y)>>, <<x, y + 1>> >>
    IN \E i \in 1..4 :
          LET nx == neighbors[i][1]
              ny == neighbors[i][2]
          IN /\ nx < w /\ ny < h
             /\ current # (alpha[ny * w + nx] > 127)

\* euclidean_distance, kept as its square dx*dx + dy*dy
euclidean_distance(x1, y1, x2, y2) ==
    (x1 - x2) * (x1 - x2) + (y1 - y2) * (y1 - y2)

\* the 8 offsets in the order of the nested dy, dx loops (0,0 is skipped)
Offsets == << <<-1, -1>>, <<-1, 0>>, <<-1, 1>>,
              << 0, -1>>,            << 0, 1>>,
              << 1, -1>>, << 1, 0>>, << 1, 1>> >>

InitSdf ==
    /\ pc = "seed"
    /\ \E d \in Dims0 :
          /\ width = d[1] /\ height = d[2]
          /\ alpha_data \in [0..(d[1] * d[2] - 1) -> SdfAlphas]
    /\ seeds = Buf(width * height, -1)
    /\ distances = Buf(width * height, DIST_UNSET)
    /\ step = 0 /\ py = 0 /\ px = 0 /\ pk = 1
    /\ max_distance = 0 /\ sdf_result = Empty
    /\ IdleMip /\ IdleSel /\ IdleCen /\ IdleSmo /\ IdleMor

\* Step 1: every edge pixel becomes its own seed at distance 0; also the
\* initial step of the flooding loop
MarkSeeds ==
    /\ pc = "seed"
    /\ seeds' = [idx \in DOMAIN seeds |->
                   IF is_edge_pixel(alpha_data, width, height,
                                    idx % width, idx \div width)
                   THEN idx ELSE seeds[idx]]
    /\ distances' = [idx \in DOMAIN distances |->
                   IF is_edge_pixel(alpha_data, width, height,
                                    idx % width, idx \div width)
                   THEN 0 ELSE distances[idx]]
    /\ step' = Max(Max(width, height) \div 2, 1)
    /\ py' = 0 /\ px' = 0 /\ pk' = 1
    \* with no pixels every round of the while loop is empty
    /\ pc' = IF width * height = 0 THEN "normalize" ELSE "flood"
    /\ UNCHANGED <<callVars, max_distance, sdf_result>>
    /\ UNCHANGED <<mipVars, selVars, cenVars, smoVars, morVars>>

\* variant of FloodSeed that adopts the neighbour instead of the neighbour's seed
FloodSeed_neighbour(sd, ds, idx, nidx, dist) ==
    IF dist < ds[idx] THEN nidx ELSE sd[idx]

\* the seed adopted by pixel idx when it looks at neighbour nidx
FloodSeed(sd, ds, idx, nidx, dist) ==
    IF dist < ds[idx] THEN sd[nidx] ELSE sd[idx]

FloodDist(sd, ds, idx, nidx, dist) ==
    IF dist < ds[idx] THEN dist ELSE ds[idx]

\* Step 2, one iteration of the innermost (dy, dx) loop body for pixel
\* (px, py), updating seeds/distances in place, then the loop increments
FloodVisit ==
    /\ pc = "flood"
    /\ LET idx == py * width + px
           nx == px + Offsets[pk][2] * step
           ny == py + Offsets[pk][1] * step
           inb == nx >= 0 /\ nx < width /\ ny >= 0 /\ ny < height
           nidx == ny * width + nx
       IN IF inb /\ seeds[nidx] >= 0
          THEN LET seed_idx == seeds[nidx]
                   dist == euclidean_distance(px, py, seed_idx % width,
                                              seed_idx \div width)
               IN /\ seeds' = [seeds EXCEPT
                        ![idx] = FloodSeed(seeds, distances, idx, nidx, dist)]
                  /\ distances' = [distances EXCEPT
                        ![idx] = FloodDist(seeds, distances, idx, nidx, dist)]
          ELSE UNCHANGED <<seeds, distances>>
    /\ LET lastK == pk = 8
           lastX == lastK /\ px = width - 1
           lastY == lastX /\ py = height - 1
       IN /\ pk' = IF lastK THEN 1 ELSE pk + 1
          /\ px' = IF lastX THEN 0 ELSE IF lastK THEN px + 1 ELSE px
          /\ py' = IF lastY THEN 0 ELSE IF lastX THEN py + 1 ELSE py
          /\ step' = IF lastY THEN step \div 2 ELSE step
          /\ pc' = IF lastY /\ step \div 2 < 1 THEN "normalize" ELSE "flood"
    /\ UNCHANGED <<callVars, max_distance, sdf_result>>
    /\ UNCHANGED <<mipVars, selVars, cenVars, smoVars, morVars>>

\* variant of normalized with the sign of the distance swapped
normalized_swapped(alpha, d2, md) ==
    LET c2 == IF d2 >= md * md THEN md * md ELSE d2
    IN IF alpha > 127
       THEN CHOOSE k \in 128..255 :
               /\ (k - 128) * (k - 128) * md * md <= 127 * 127 * c2
               /\ \A j \in (k + 1)..255 :
                     (j - 128) * (j - 128) * md * md > 127 * 127 * c2
       ELSE CHOOSE k \in 0..128 :
               /\ 127 * 127 * c2 <= (128 - k) * (128 - k) * md * md
               /\ \A j \in (k + 1)..128 :
                     127 * 127 * c2 > (128 - j) * (128 - j) * md * md

\* Step 3 for one pixel: dist = distances[idx].min(max_distance), signed by
\* the opacity class, ((signed / max_distance) * 127 + 128).clamp(0, 255)
\* truncated to u8.  d2 is the squared distance, md the max_distance.
normalized(alpha, d2, md) ==
    LET c2 == IF d2 >= md * md THEN md * md ELSE d2
    IN IF alpha > 127
       THEN \* 128 - 127 * sqrt(c2) / md, truncated
            CHOOSE k \in 0..128 :
               /\ 127 * 127 * c2 <= (128 - k) * (128 - k) * md * md
               /\ \A j \in (k + 1)..128 :
                     127 * 127 * c2 > (128 - j) * (128 - j) * md * md
       ELSE \* 128 + 127 * sqrt(c2) / md, truncated
            CHOOSE k \in 128..255 :
               /\ (k - 128) * (k - 128) * md * md <= 127 * 127 * c2
               /\ \A j \in (k + 1)..255 :
                     (j - 128) * (j - 128) * md * md > 127 * 127 * c2

Normalize ==
    /\ pc = "normalize"
    /\ \E md \in MaxDistances :
          /\ max_distance' = md
          /\ sdf_result' = [idx \in 0..(width * height - 1) |->
                              normalized(alpha_data[idx], distances[idx], md)]
    /\ pc' = "done"
    /\ UNCHANGED <<callVars, seeds, distances, step, py, px, pk>>
    /\ UNCHANGED <<mipVars, selVars, cenVars, smoVars, morVars>>

NextSdf == MarkSeeds \/ FloodVisit \/ Normalize

SpecSdf == InitSdf /\ [][NextSdf]_vars

\* ------------------------------------------------------- claims on sdf.rs
AllTransparent == \A i \in DOMAIN alpha_data : alpha_data[i] <= 127
AllOpaque == \A i \in DOMAIN alpha_data : alpha_data[i] > 127

\* C1: on a mask without opacity transition generate_sdf is saturated on the
\* correct side: all alpha <= 127 gives every byte >= 128, all alpha > 127
\* gives every byte <= 128, and the output has width*height bytes.
C1_SdfUniformSide ==
    pc = "done" /\ max_distance > 0 =>
       /\ len(sdf_result) = width * height
       /\ AllTransparent => \A i \in DOMAIN sdf_result : sdf_result[i] >= 128
       /\ AllOpaque => \A i \in DOMAIN sdf_result : sdf_result[i] <= 128

C1_Witness ==
    /\ pc = "done" /\ width = 3 /\ height = 3 /\ AllOpaque
    /\ \A i \in DOMAIN sdf_result : sdf_result[i] = 1

Col(p) == p % width
Row(p) == p \div width

\* 4-connected opacity transition at pixel p, over pixel indices
Transition(p) ==
    \E q \in DOMAIN alpha_data :
       /\ \/ (Row(q) = Row(p) /\ (q - p = 1 \/ p - q = 1))
          \/ (Col(q) = Col(p) /\ (q - p = width \/ p - q = width))
       /\ (alpha_data[p] > 127) # (alpha_data[q] > 127)

SeedFieldInv ==
    pc \in {"flood", "normalize", "done"} =>
       \A p \in DOMAIN seeds :
          /\ seeds[p] >= 0 =>
                /\ seeds[p] \in DOMAIN seeds
                /\ Transition(seeds[p])
                /\ distances[p] =
                      (Col(p) - Col(seeds[p])) * (Col(p) - Col(seeds[p]))
                      + (Row(p) - Row(seeds[p])) * (Row(p) - Row(seeds[p]))
          /\ Transition(p) => seeds[p] = p /\ distances[p] = 0

DistanceNonIncreasing ==
    \A p \in DOMAIN distances : distances'[p] <= distances[p]

\* C9: after seed marking and after every in-place update of the jump
\* flooding, a pixel with a seed stores the index of an edge pixel and the
\* (squared) Euclidean distance to it, every edge pixel keeps itself as seed
\* at distance 0, and no stored distance ever increases.
C9_SeedField == []SeedFieldInv /\ [][DistanceNonIncreasing]_vars

\* during the last round a pixel holds another pixel as its seed, at a
\* distance above 1
C9_Witness ==
    /\ pc = "flood" /\ step = 1
    /\ \E p \in DOMAIN seeds :
          seeds[p] >= 0 /\ seeds[p] # p /\ distances[p] > 1

\* C11: for a mask with at least one edge pixel, when the jump flooding has
\* finished (after the round with step 1) every pixel has an assigned seed
\* and a distance other than the unset value, so that no pixel of the result
\* is saturated from the unset distance.
C11_AllPixelsSeeded ==
    /\ pc \in {"normalize", "done"}
    /\ \E p \in DOMAIN alpha_data : Transition(p)
    => \A p \in DOMAIN seeds : seeds[p] >= 0 /\ distances[p] # DIST_UNSET

\* ======================================================================
\* mipmap.rs
\* ======================================================================

\* srgb_to_linear and linear_to_srgb are transcendental (powf); the colour
\* channels of the inputs are black, where both are exact:
\* srgb_to_linear(0) = 0.0 / 12.92 = 0.0 and linear_to_srgb(0.0) = 0
srgb_to_linear(value) == CASE value = 0 -> 0

linear_to_srgb(value) == CASE value = 0 -> 0

\* variant of sample_in_range with an off-by-one bound
sample_in_range_off(data, src_idx) == src_idx + 4 < len(data)

\* the guard  src_idx + 3 < data.len()
sample_in_range(data, src_idx) == src_idx + 3 < len(data)

\* contribution of source sample (sx+dx, sy+dy), channel c, to the block sum
block_sample(data, w, sx, sy, dx, dy, c) ==
    LET src_idx == ((sy + dy) * w + (sx + dx)) * 4
    IN IF sample_in_range(data, src_idx)
       THEN IF c = 3 THEN data[src_idx + 3]
                     ELSE srgb_to_linear(data[src_idx + c])
       ELSE 0

\* r_sum, g_sum, b_sum (c = 0, 1, 2) or a_sum (c = 3) of the 2x2 block
block_sum(data, w, sx, sy, c) ==
    block_sample(data, w, sx, sy, 0, 0, c)
    + block_sample(data, w, sx, sy, 1, 0, c)
    + block_sample(data, w, sx, sy, 0, 1, c)
    + block_sample(data, w, sx, sy, 1, 1, c)

\* (a_sum / 4.0).round() as u8, round half away from zero
round_div4(a_sum) == (a_sum + 2) \div 4

downsample_2x(data, w, h) ==
    LET new_width == w \div 2
        new_height == h \div 2
    IN [dst \in 0..(new_width * new_height * 4 - 1) |->
          LET x == (dst \div 4) % new_width
              y == (dst \div 4) \div new_width
              c == dst % 4
              sum == block_sum(data, w, x * 2, y * 2, c)
          IN IF c = 3 THEN round_div4(sum)
                      ELSE linear_to_srgb(sum \div 4)]

MipmapLevel(d, w, h) == [data |-> d, width |-> w, height |-> h]

\* RGBA buffer with black colour channels and the given alpha plane
Rgba(alpha) ==
    [i \in 0..(len(alpha) * 4 - 1) |-> IF i % 4 = 3 THEN alpha[i \div 4] ELSE 0]

InitMip ==
    /\ pc = "mip_start"
    /\ \E d \in Dims1 :
          /\ width = d[1] /\ height = d[2]
          /\ \E a \in [0..(d[1] * d[2] - 1) -> MipAlphas] : image_data = Rgba(a)
    /\ levels \in 1..MaxLevels
    /\ alpha_data = Empty
    /\ level_i = 0 /\ current_width = 0 /\ current_height = 0
    /\ current_data = Empty /\ mip_result = <<>>
    /\ IdleSdf /\ IdleSel /\ IdleCen /\ IdleSmo /\ IdleMor

\* level 0 is the original; current_* start at the input
MipStart ==
    /\ pc = "mip_start"
    /\ mip_result' = <<MipmapLevel(image_data, width, height)>>
    /\ current_width' = width
    /\ current_height' = height
    /\ current_data' = image_data
    /\ level_i' = 1
    /\ pc' = "mip_loop"
    /\ UNCHANGED <<callVars, image_data, levels>>
    /\ UNCHANGED <<sdfVars, selVars, cenVars, smoVars, morVars>>

\* one iteration of  for _ in 1..levels
MipLevel ==
    /\ pc = "mip_loop"
    /\ level_i < levels
    /\ LET new_width == Max(current_width \div 2, 1)
           new_height == Max(current_height \div 2, 1)
           new_data == downsample_2x(current_data, current_width,
                                     current_height)
       IN /\ mip_result' = Append(mip_result,
                                  MipmapLevel(new_data, new_width, new_height))
          /\ current_width' = new_width
          /\ current_height' = new_height
          /\ current_data' = new_data
    /\ level_i' = level_i + 1
    /\ pc' = "mip_loop"
    /\ UNCHANGED <<callVars, image_data, levels>>
    /\ UNCHANGED <<sdfVars, selVars, cenVars, smoVars, morVars>>

MipReturn ==
    /\ pc = "mip_loop"
    /\ level_i >= levels
    /\ pc' = "done"
    /\ UNCHANGED <<callVars, mipVars>>
    /\ UNCHANGED <<sdfVars, selVars, cenVars, smoVars, morVars>>

NextMip == MipStart \/ MipLevel \/ MipReturn

SpecMip == InitMip /\ [][NextMip]_vars

\* floor(log2(ratio)) for ratio = num/den >= 1, by repeated halving
RECURSIVE floor_log2(_, _)
floor_log2(num, den) ==
    IF num < 2 * den THEN 0 ELSE 1 + floor_log2(num, 2 * den)

\* variant of select_mipmap_level clamping to mipmap_count
select_mipmap_level_count(out, src, count) ==
    IF out >= src THEN 0 ELSE Min(floor_log2(src, out), count)

select_mipmap_level(out, src, count) ==
    IF out >= src THEN 0 ELSE Min(floor_log2(src, out), count - 1)

InitSelect ==
    /\ pc = "select"
    /\ output_size \in Sizes
    /\ source_size \in Sizes
    /\ mipmap_count \in 1..MaxCount
    /\ level = 0
    /\ IdleCall /\ IdleSdf /\ IdleMip /\ IdleCen /\ IdleSmo /\ IdleMor

SelectMipmapLevel ==
    /\ pc = "select"
    /\ level' = select_mipmap_level(output_size, source_size, mipmap_count)
    /\ pc' = "done"
    /\ UNCHANGED <<output_size, source_size, mipmap_count>>
    /\ UNCHANGED <<callVars, sdfVars, mipVars, cenVars, smoVars, morVars>>

NextSelect == SelectMipmapLevel

SpecSelect == InitSelect /\ [][NextSelect]_vars

\* ---------------------------------------------------- claims on mipmap.rs

\* C2: every level returned by generate_mipmaps has data of length
\* width_k * height_k * 4, with width_0, height_0 the inputs and
\* width_{k+1} = max(1, width_k div 2), height_{k+1} = max(1, height_k div 2).
C2_MipLevelsWellFormed ==
    \A k \in 1..Len(mip_result) :
       /\ len(mip_result[k].data)
             = mip_result[k].width * mip_result[k].height * 4
       /\ k = 1 => /\ mip_result[k].width = width
                   /\ mip_result[k].height = height
       /\ k > 1 => /\ mip_result[k].width
                         = Max(1, mip_result[k - 1].width \div 2)
                   /\ mip_result[k].height
                         = Max(1, mip_result[k - 1].height \div 2)

\* alpha of source pixel (x, y) of a level
SrcAlpha(lv, x, y) == lv.data[(y * lv.width + x) * 4 + 3]
\* number of the block's four samples whose index lies outside the buffer
Skipped(lv, x, y) ==
    Cardinality({o \in {0, 1} \X {0, 1} :
        ((2 * y + o[2]) * lv.width + (2 * x + o[1])) * 4 + 3 >= len(lv.data)})
InRangeSum(lv, x, y) ==
    LET val(dx, dy) ==
          IF ((2 * y + dy) * lv.width + (2 * x + dx)) * 4 + 3 < len(lv.data)
          THEN lv.data[((2 * y + dy) * lv.width + (2 * x + dx)) * 4 + 3]
          ELSE 0
    IN val(0, 0) + val(1, 0) + val(0, 1) + val(1, 1)
DstPixels(lv) ==
    {q \in (0..((lv.width \div 2) - 1)) \X (0..((lv.height \div 2) - 1)) : TRUE}
DstAlpha(src, dst, x, y) == dst.data[(y * (src.width \div 2) + x) * 4 + 3]

Pow2(n) == IF n = 0 THEN 1 ELSE 2 ^ n

qualifies_strict(a, t) == a > t

\* alpha_data[idx] >= threshold
qualifies(a, t) == a >= t

\* the scan of calculate_centroid from pixel idx on, in row-major order;
\* acc holds sum_x, sum_y, count, min_x, max_x, min_y, max_y
RECURSIVE centroid_scan(_, _, _, _, _)
centroid_scan(alpha, w, t, idx, acc) ==
    IF idx >= len(alpha) THEN acc
    ELSE LET x == idx % w
             y == idx \div w
         IN centroid_scan(alpha, w, t, idx + 1,
               IF qualifies(alpha[idx], t)
               THEN [sum_x |-> acc.sum_x + x, sum_y |-> acc.sum_y + y,
                     count |-> acc.count + 1,
                     min_x |-> Min(acc.min_x, x), max_x |-> Max(acc.max_x, x),
                     min_y |-> Min(acc.min_y, y), max_y |-> Max(acc.max_y, y)]
               ELSE acc)

\* the Centroid record; x and y are exact fractions x_num/x_den, y_num/y_den
calculate_centroid(alpha, w, h, t) ==
    LET acc == centroid_scan(alpha, w, t, 0,
                  [sum_x |-> 0, sum_y |-> 0, count |-> 0,
                   min_x |-> w, max_x |-> 0, min_y |-> h, max_y |-> 0])
    IN IF acc.count = 0
       THEN [x_num |-> w \div 2, x_den |-> 1,
             y_num |-> h \div 2, y_den |-> 1,
             area |-> 0, bounds_x |-> 0, bounds_y |-> 0,
             bounds_width |-> w, bounds_height |-> h]
       ELSE [x_num |-> acc.sum_x, x_den |-> acc.count,
             y_num |-> acc.sum_y, y_den |-> acc.count,
             area |-> acc.count,
             bounds_x |-> acc.min_x, bounds_y |-> acc.min_y,
             bounds_width |-> acc.max_x - acc.min_x + 1,
             bounds_height |-> acc.max_y - acc.min_y + 1]

InitCentroid ==
    /\ pc = "centroid"
    /\ \E d \in Dims1 :
          /\ width = d[1] /\ height = d[2]
          /\ alpha_data \in [0..(d[1] * d[2] - 1) -> MaskAlphas]
    /\ threshold \in Thresholds
    /\ centroid = <<>>
    /\ IdleSdf /\ IdleMip /\ IdleSel /\ IdleSmo /\ IdleMor

CalculateCentroid ==
    /\ pc = "centroid"
    /\ centroid' = calculate_centroid(alpha_data, width, height, threshold)
    /\ pc' = "done"
    /\ UNCHANGED <<callVars, threshold>>
    /\ UNCHANGED <<sdfVars, mipVars, selVars, smoVars, morVars>>

NextCentroid == CalculateCentroid

SpecCentroid == InitCentroid /\ [][NextCentroid]_vars

\* (x + dx).saturating_sub(radius)
saturating_sub(a, b) == IF a < b THEN 0 ELSE a - b

\* the window loop  for d in 0..=radius*2  of one box-blur pass at position
\* pos of a line of n samples (a row of the plane, or a column); acc holds
\* sum and count
RECURSIVE blur_scan(_, _, _, _, _, _)
blur_scan(line, n, pos, r, d, acc) ==
    IF d > r * 2 THEN acc
    ELSE LET s == saturating_sub(pos + d, r)
         IN blur_scan(line, n, pos, r, d + 1,
               IF s < n
               THEN [sum |-> acc.sum + line[s], count |-> acc.count + 1]
               ELSE acc)

\* (sum / count.max(1)) as u8
blur_value(acc) == acc.sum \div Max(acc.count, 1)

horizontal_pass(alpha, w, h, r) ==
    [i \in 0..(w * h - 1) |->
       LET x == i % w
           y == i \div w
           line == [sx \in 0..(w - 1) |-> alpha[y * w + sx]]
       IN blur_value(blur_scan(line, w, x, r, 0, [sum |-> 0, count |-> 0]))]

vertical_pass(tmp, w, h, r) ==
    [i \in 0..(w * h - 1) |->
       LET x == i % w
           y == i \div w
           line == [sy \in 0..(h - 1) |-> tmp[sy * w + x]]
       IN blur_value(blur_scan(line, h, y, r, 0, [sum |-> 0, count |-> 0]))]

\* radius = (strength * 2.0).ceil() for strength = q/4
smooth_radius(q) == (q + 1) \div 2

\* alpha * (1 - strength) + result * strength, rounded, for strength = q/4
blend(a, b, q) == (a * (4 - q) + b * q + 2) \div 4

InitSmooth ==
    /\ pc = "smooth"
    /\ \E d \in Dims1 :
          /\ width = d[1] /\ height = d[2]
          /\ alpha_data \in [0..(d[1] * d[2] - 1) -> SmoothAlphas]
    /\ strength \in StrengthQ
    /\ temp = Empty /\ blurred = Empty /\ smoothed = Empty
    /\ IdleSdf /\ IdleMip /\ IdleSel /\ IdleCen /\ IdleMor

\* radius == 0: the plane is returned unchanged
SmoothNone ==
    /\ pc = "smooth"
    /\ smooth_radius(strength) = 0
    /\ smoothed' = alpha_data
    /\ pc' = "done"
    /\ UNCHANGED <<callVars, strength, temp, blurred>>
    /\ UNCHANGED <<sdfVars, mipVars, selVars, cenVars, morVars>>

HorizontalPass ==
    /\ pc = "smooth"
    /\ smooth_radius(strength) # 0
    /\ temp' = horizontal_pass(alpha_data, width, height,
                               smooth_radius(strength))
    /\ pc' = "vertical"
    /\ UNCHANGED <<callVars, strength, blurred, smoothed>>
    /\ UNCHANGED <<sdfVars, mipVars, selVars, cenVars, morVars>>

VerticalPass ==
    /\ pc = "vertical"
    /\ blurred' = vertical_pass(temp, width, height, smooth_radius(strength))
    /\ pc' = "blend"
    /\ UNCHANGED <<callVars, strength, temp, smoothed>>
    /\ UNCHANGED <<sdfVars, mipVars, selVars, cenVars, morVars>>

Blend ==
    /\ pc = "blend"
    /\ smoothed' = [i \in 0..(width * height - 1) |->
                      blend(alpha_data[i], blurred[i], strength)]
    /\ pc' = "done"
    /\ UNCHANGED <<callVars, strength, temp, blurred>>
    /\ UNCHANGED <<sdfVars, mipVars, selVars, cenVars, morVars>>

NextSmooth == SmoothNone \/ HorizontalPass \/ VerticalPass \/ Blend

SpecSmooth == InitSmooth /\ [][NextSmooth]_vars

\* variant of dilate_skip with a square kernel
dilate_skip_square(dx, dy, r) == FALSE

\* the circular kernel test of dilate_alpha: the offset is skipped
dilate_skip(dx, dy, r) == dx * dx + dy * dy > r * r

\* the circular kernel test of erode_alpha
erode_skip(dx, dy, r) == dx * dx + dy * dy > r * r

\* the nested  for dy in -r..=r, for dx in -r..=r  loops of dilate_alpha at
\* pixel (x, y), from offset number k on; acc is max_val
RECURSIVE dilate_scan(_, _, _, _, _, _, _, _)
dilate_scan(alpha, w, h, x, y, r, k, acc) ==
    IF k >= (2 * r + 1) * (2 * r + 1) THEN acc
    ELSE LET dy == (k \div (2 * r + 1)) - r
             dx == (k % (2 * r + 1)) - r
             sx == x + dx
             sy == y + dy
         IN dilate_scan(alpha, w, h, x, y, r, k + 1,
               IF dilate_skip(dx, dy, r) THEN acc
               ELSE IF sx >= 0 /\ sx < w /\ sy >= 0 /\ sy < h
                    THEN Max(acc, alpha[sy * w + sx])
                    ELSE acc)

dilate_alpha(alpha, w, h, r) ==
    [i \in 0..(w * h - 1) |-> dilate_scan(alpha, w, h, i % w, i \div w, r, 0, 0)]

\* variant of erode_sample that reads samples outside the image as 0
erode_sample_zero(alpha, w, h, sx, sy, min_val) ==
    IF sx >= 0 /\ sx < w /\ sy >= 0 /\ sy < h
    THEN Min(min_val, alpha[sy * w + sx])
    ELSE 0

\* the bounds test and min update of erode_alpha for sample (sx, sy)
erode_sample(alpha, w, h, sx, sy, min_val) ==
    IF sx >= 0 /\ sx < w /\ sy >= 0 /\ sy < h
    THEN Min(min_val, alpha[sy * w + sx])
    ELSE min_val

\* the nested loops of erode_alpha at pixel (x, y); acc is min_val
RECURSIVE erode_scan(_, _, _, _, _, _, _, _)
erode_scan(alpha, w, h, x, y, r, k, acc) ==
    IF k >= (2 * r + 1) * (2 * r + 1) THEN acc
    ELSE LET dy == (k \div (2 * r + 1)) - r
             dx == (k % (2 * r + 1)) - r
         IN erode_scan(alpha, w, h, x, y, r, k + 1,
               IF erode_skip(dx, dy, r) THEN acc
               ELSE erode_sample(alpha, w, h, x + dx, y + dy, acc))

erode_alpha(alpha, w, h, r) ==
    [i \in 0..(w * h - 1) |->
       erode_scan(alpha, w, h, i % w, i \div w, r, 0, 255)]

InitMorph ==
    /\ pc = "dilate"
    /\ \E d \in Dims0 :
          /\ width = d[1] /\ height = d[2]
          /\ alpha_data \in MorphMasks(d)
    /\ radius \in 0..MaxRadius
    /\ dilated = Empty /\ eroded = Empty
    /\ IdleSdf /\ IdleMip /\ IdleSel /\ IdleCen /\ IdleSmo

\* dilate_alpha(mask, width, height, radius)
Dilate ==
    /\ pc = "dilate"
    /\ dilated' = dilate_alpha(alpha_data, width, height, radius)
    /\ pc' = "erode"
    /\ UNCHANGED <<callVars, radius, eroded>>
    /\ UNCHANGED <<sdfVars, mipVars, selVars, cenVars, smoVars>>

\* erode_alpha applied to the dilated mask with the same radius
Erode ==
    /\ pc = "erode"
    /\ eroded' = erode_alpha(dilated, width, height, radius)
    /\ pc' = "done"
    /\ UNCHANGED <<callVars, radius, dilated>>
    /\ UNCHANGED <<sdfVars, mipVars, selVars, cenVars, smoVars>>

NextMorph == Dilate \/ Erode

SpecMorph == InitMorph /\ [][NextMorph]_vars

\* ------------------------------------------------- claims on normalize.rs
Qualifying == {p \in DOMAIN alpha_data : alpha_data[p] >= threshold}

\* C4: when no pixel satisfies alpha >= threshold, calculate_centroid returns
\* area 0, the centroid at exactly (width/2, height/2), for odd as well as
\* even dimensions, and the bounding box (0, 0, width, height).
C4_EmptyCentroidCenter ==
    pc = "done" /\ Qualifying = {} =>
       /\ centroid.area = 0
       /\ 2 * centroid.x_num = width * centroid.x_den
       /\ 2 * centroid.y_num = height * centroid.y_den
       /\ centroid.bounds_x = 0 /\ centroid.bounds_y = 0
       /\ centroid.bounds_width = width /\ centroid.bounds_height = height

\* C5: when some pixel qualifies, area is the number of qualifying pixels
\* and the bounding box is the tightest inclusive one: every qualifying pixel
\* lies inside it and each of its four sides touches a qualifying pixel.
C5_CentroidAreaBox ==
    pc = "done" /\ Qualifying # {} =>
       LET x0 == centroid.bounds_x
           y0 == centroid.bounds_y
           x1 == centroid.bounds_x + centroid.bounds_width - 1
           y1 == centroid.bounds_y + centroid.bounds_height - 1
       IN /\ centroid.area = Cardinality(Qualifying)
          /\ \A p \in Qualifying :
                x0 <= Col(p) /\ Col(p) <= x1 /\ y0 <= Row(p) /\ Row(p) <= y1
          /\ \E p \in Qualifying : Col(p) = x0
          /\ \E p \in Qualifying : Col(p) = x1
          /\ \E p \in Qualifying : Row(p) = y0
          /\ \E p \in Qualifying : Row(p) = y1
          /\ Cardinality(Qualifying) = width * height =>
                /\ centroid.area = width * height
                /\ x0 = 0 /\ y0 = 0
                /\ centroid.bounds_width = width
                /\ centroid.bounds_height = height

\* some but not all pixels qualify, one of them exactly at the threshold,
\* and the box is smaller than the image
C5_Witness ==
    /\ pc = "done" /\ centroid.area >= 2 /\ centroid.area < width * height
    /\ centroid.bounds_x > 0 /\ centroid.bounds_height < height
    /\ \E p \in Qualifying : alpha_data[p] = threshold

\* in-bounds pixels of the disk of the given radius around pixel p
Disk(p) ==
    {q \in DOMAIN alpha_data :
        (Col(q) - Col(p)) * (Col(q) - Col(p))
        + (Row(q) - Row(p)) * (Row(q) - Row(p)) <= radius * radius}

\* C6: erode_alpha(dilate_alpha(mask, r), r) is pixel-wise >= mask.
C6_ClosingExtensive ==
    pc = "done" => \A p \in DOMAIN alpha_data : eroded[p] >= alpha_data[p]

\* a 3 x 3 mask with an opaque corner pixel, closed with radius 1, whose
\* closing is neither the mask itself nor everywhere 255
C6_Witness ==
    /\ pc = "done" /\ radius = 1 /\ width = 3 /\ height = 3
    /\ alpha_data[0] = 255
    /\ \E p \in DOMAIN eroded : eroded[p] > alpha_data[p]
    /\ \E p \in DOMAIN eroded : eroded[p] < 255

CenterOnly == [i \in 0..8 |-> IF i = 4 THEN 255 ELSE 0]

\* C7: each output pixel of dilate_alpha is the maximum input alpha over
\* exactly the in-bounds pixels of the disk around it; with r = 1 on the 3x3
\* mask whose only non-zero pixel is the centre at 255, the centre and its 4
\* orthogonal neighbours are 255 and the 4 diagonal neighbours are 0.
C7_DilateDiskMax ==
    pc \in {"erode", "done"} =>
       /\ \A p \in DOMAIN alpha_data :
             /\ \A q \in Disk(p) : dilated[p] >= alpha_data[q]
             /\ \E q \in Disk(p) : dilated[p] = alpha_data[q]
       /\ width = 3 /\ height = 3 /\ radius = 1 /\ alpha_data = CenterOnly =>
             dilated = [i \in 0..8 |-> IF i \in {1, 3, 4, 5, 7} THEN 255 ELSE 0]

C7_Witness ==
    /\ pc = "erode" /\ width = 3 /\ height = 3 /\ radius = 1
    /\ alpha_data = CenterOnly
    /\ dilated[0] = 0 /\ dilated[1] = 255

\* in-bounds positions of the window [pos - r, pos + r] of a line of n samples
Window(pos, r, n) == {s \in 0..(n - 1) : pos - r <= s /\ s <= pos + r}

RECURSIVE SumOver(_, _)
SumOver(line, S) ==
    IF S = {} THEN 0
    ELSE LET s == CHOOSE t \in S : TRUE
         IN line[s] + SumOver(line, S \ {s})

\* C10: in both box-blur passes with radius >= 1 the value written for a
\* pixel is the sum of the in-bounds samples of [pos - radius, pos + radius]
\* divided by the number of distinct in-bounds positions of that window.
C10_BoxBlurWindow ==
    LET r == smooth_radius(strength)
    IN /\ pc \in {"vertical", "blend"} =>
             \A i \in DOMAIN temp :
                LET row == [sx \in 0..(width - 1) |->
                              alpha_data[Row(i) * width + sx]]
                    win == Window(Col(i), r, width)
                IN temp[i] = SumOver(row, win) \div Cardinality(win)
       /\ pc = "blend" =>
             \A i \in DOMAIN blurred :
                LET col == [sy \in 0..(height - 1) |->
                              temp[sy * width + Col(i)]]
                    win == Window(Row(i), r, height)
                IN blurred[i] = SumOver(col, win) \div Cardinality(win)

=============================================================================
